---- MODULE Spec2Model ----
(***************************************************************************)
(* The homicide dashboard of src/script.js: a loaded record set, the       *)
(* selection (selectedCity, selectedRace, selectedYear), the three chart   *)
(* surfaces, and the three event handlers that mutate the selection and    *)
(* redraw charts.                                                          *)
(***************************************************************************)
EXTENDS Integers, Sequences, FiniteSets, TLC

\* Longest record set loaded.
MaxRecords == 3

VARIABLES loaded, data, selectedCity, selectedRace, selectedYear,
          citySelect, raceSelect,
          lineChart, barChart, scatterChart,
          redrawn, lastEvent

vars == <<loaded, data, selectedCity, selectedRace, selectedYear, citySelect, raceSelect,
          lineChart, barChart, scatterChart, redrawn, lastEvent>>

(***************************************************************************)
(* JavaScript values that are not always strings: the derived year, lat,   *)
(* lon.  One record shape, so that any two values can be compared.         *)
(***************************************************************************)
Num(n) == [t |-> "number", n |-> n, s |-> ""]
Str(s) == [t |-> "string", n |-> 0, s |-> s]
NaN == [t |-> "NaN", n |-> 0, s |-> ""]
Null == [t |-> "null", n |-> 0, s |-> ""]
Undefined == [t |-> "undefined", n |-> 0, s |-> ""]

\* Boolean(v), the test behind filter(Boolean), && and ||.
Truthy(v) ==
  CASE v.t = "number" -> v.n # 0
    [] v.t = "string" -> v.s # ""
    [] OTHER -> FALSE

\* a === b
StrictEq(a, b) == a.t # "NaN" /\ a = b

\* v != null
NotNullish(v) == v.t \notin {"null", "undefined"}

(***************************************************************************)
(* The loader's row function.  A reported_date is a sequence of character  *)
(* codes ("0" is 48 .. "9" is 57).                                         *)
(***************************************************************************)
slice04(ds) == SubSeq(ds, 1, IF Len(ds) < 4 THEN Len(ds) ELSE 4)

RECURSIVE Decimal(_)
Decimal(s) ==
  IF s = <<>> THEN 0 ELSE 10 * Decimal(SubSeq(s, 1, Len(s) - 1)) + (s[Len(s)] - 48)

\* Unary plus on a non-empty string of the model: digits convert, anything else is NaN.
ToNumber(s) == IF \A i \in DOMAIN s : s[i] \in 48..57 THEN Num(Decimal(s)) ELSE NaN

year(ds) == IF ds # <<>> THEN ToNumber(slice04(ds)) ELSE Null

Row(d) ==
  [city |-> d.city, victim_race |-> d.victim_race, victim_sex |-> d.victim_sex,
   reported_date |-> d.reported_date, year |-> year(d.reported_date),
   lat |-> d.lat, lon |-> d.lon]

LoadCsv(rows) == [i \in DOMAIN rows |-> Row(rows[i])]

(***************************************************************************)
(* Array helpers: new Set (insertion-ordered), sort (stable), d3.rollup    *)
(* with v => v.length (an insertion-ordered map).                          *)
(***************************************************************************)
\* [...new Set(s)]: the elements of s, each at its first occurrence.
RECURSIVE Distinct(_)
Distinct(s) ==
  IF s = <<>> THEN <<>>
  ELSE LET Other(e) == e # Head(s)
       IN <<Head(s)>> \o Distinct(SelectSeq(Tail(s), Other))

\* The array that the stable sort leaves, given each element v with its comparator
\* key k: an element goes behind every smaller key and every earlier equal key.
Sorted(keyed) ==
  LET Place(i) == Cardinality({j \in DOMAIN keyed :
                                 \/ keyed[j].k < keyed[i].k
                                 \/ keyed[j].k = keyed[i].k /\ j <= i})
  IN [p \in DOMAIN keyed |-> keyed[CHOOSE i \in DOMAIN keyed : Place(i) = p].v]

\* numbers.sort((a, b) => a - b)
sortAscending(numbers) ==
  Sorted([i \in DOMAIN numbers |-> [k |-> numbers[i].n, v |-> numbers[i]]])

\* d3.rollup(rows, v => v.length, key) over the rows' keys: one entry per key, in
\* order of first occurrence, with the number of rows of that key.
RECURSIVE rollup(_)
rollup(keys) ==
  IF keys = <<>> THEN <<>>
  ELSE LET Same(e) == e = Head(keys)
           Other(e) == e # Head(keys)
       IN <<[key |-> Head(keys), count |-> Len(SelectSeq(keys, Same))]>>
            \o rollup(SelectSeq(keys, Other))

(***************************************************************************)
(* Dimension extraction and the default year.                              *)
(***************************************************************************)
\* rows.map(d => d.year)
mapYear(rows) == [i \in DOMAIN rows |-> rows[i].year]

years == sortAscending(Distinct(SelectSeq(mapYear(data), Truthy)))

\* The option lists; their lexical order decides nothing but the order of the options.
cities == {data[i].city : i \in {j \in DOMAIN data : data[j].city # ""}}
races == {data[i].victim_race : i \in {j \in DOMAIN data : data[j].victim_race # ""}}

\* Variant: the race is left out of the filter.
getValidYearsAnyRace(city, race) ==
  LET Match(d) == d.city = city /\ Truthy(d.year)
  IN sortAscending(Distinct(mapYear(SelectSeq(data, Match))))

getValidYears(city, race) ==
  LET Match(d) == d.city = city /\ d.victim_race = race /\ Truthy(d.year)
  IN sortAscending(Distinct(mapYear(SelectSeq(data, Match))))

\* getValidYears()[0] || years[0]
defaultYear(city, race) ==
  LET valid == getValidYears(city, race)
  IN IF valid # <<>> /\ Truthy(valid[1]) THEN valid[1]
     ELSE IF years # <<>> THEN years[1]
     ELSE Undefined

(***************************************************************************)
(* The three charts.  A surface is what the draw function leaves on it:    *)
(* the title, the static texts, whether axes were drawn, and the data      *)
(* bound to the shapes (circles, rects), in order.                         *)
(***************************************************************************)
\* Variant: d.year != null in place of the truthiness test.
lineFilteredNotNull(city) ==
  LET Match(d) == d.city = city /\ NotNullish(d.year)
  IN SelectSeq(data, Match)

lineFiltered(city) ==
  LET Match(d) == d.city = city /\ Truthy(d.year)
  IN SelectSeq(data, Match)

yearData(city) ==
  LET yearCounts == rollup(mapYear(lineFiltered(city)))
  IN Sorted([i \in DOMAIN yearCounts |->
               [k |-> yearCounts[i].key.n,
                v |-> [year |-> yearCounts[i].key, count |-> yearCounts[i].count]]])

\* Variant: no early return on an empty series.
drawLineChartWithoutGuard(city) ==
  [title |-> city,
   text |-> {"(Click a point to explore that year's data)", "Year", "Total Homicides"},
   axes |-> TRUE,
   marks |-> yearData(city)]

drawLineChart(city) ==
  IF lineFiltered(city) = <<>>
  THEN [title |-> city,
        text |-> {"(Click a point to explore that year's data)", "No homicide data found."},
        axes |-> FALSE,
        marks |-> <<>>]
  ELSE [title |-> city,
        text |-> {"(Click a point to explore that year's data)", "Year", "Total Homicides"},
        axes |-> TRUE,
        marks |-> yearData(city)]

barFiltered(city, race, yr) ==
  LET Match(d) == /\ d.city = city
                  /\ StrictEq(d.year, yr)
                  /\ d.victim_sex # ""
                  /\ d.victim_race = race
  IN SelectSeq(data, Match)

\* Variant: the comparator is a.count - b.count.
sexDataAscending(city, race, yr) ==
  LET filtered == barFiltered(city, race, yr)
      sexCounts == rollup([i \in DOMAIN filtered |-> filtered[i].victim_sex])
  IN Sorted([i \in DOMAIN sexCounts |->
               [k |-> sexCounts[i].count,
                v |-> [sex |-> sexCounts[i].key, count |-> sexCounts[i].count]]])

sexData(city, race, yr) ==
  LET filtered == barFiltered(city, race, yr)
      sexCounts == rollup([i \in DOMAIN filtered |-> filtered[i].victim_sex])
  IN Sorted([i \in DOMAIN sexCounts |->
               [k |-> 0 - sexCounts[i].count,
                v |-> [sex |-> sexCounts[i].key, count |-> sexCounts[i].count]]])

drawBarChart(city, race, yr) ==
  IF barFiltered(city, race, yr) = <<>>
  THEN [title |-> <<Str(city), yr>>,
        text |-> {"No data for selected filters."},
        axes |-> FALSE,
        marks |-> <<>>]
  ELSE [title |-> <<Str(city), yr>>,
        text |-> {"Victim Sex", "Homicide Count"},
        axes |-> TRUE,
        marks |-> sexData(city, race, yr)]

scatterFiltered(city, yr) ==
  LET Match(d) == /\ d.city = city
                  /\ StrictEq(d.year, yr)
                  /\ NotNullish(d.lat)
                  /\ NotNullish(d.lon)
  IN SelectSeq(data, Match)

drawLatLonScatterplot(city, yr) ==
  IF scatterFiltered(city, yr) = <<>>
  THEN [title |-> <<Str(city), yr>>,
        text |-> {"No coordinate data for these filters."},
        axes |-> FALSE,
        marks |-> <<>>]
  ELSE [title |-> <<Str(city), yr>>,
        text |-> {"Longitude", "Latitude"},
        axes |-> TRUE,
        marks |-> scatterFiltered(city, yr)]

(***************************************************************************)
(* The rows a file may hold.  Each family varies the columns one chart     *)
(* reads and fixes the others.                                             *)
(***************************************************************************)
Date2007 == <<50, 48, 48, 55, 48, 53, 48, 52>>
Date2008 == <<50, 48, 48, 56, 49, 50, 51, 49>>
Date0000 == <<48, 48, 48, 48, 48, 49, 48, 49>>
DateText == <<117, 110, 107, 110, 111, 119, 110>>
DateEmpty == <<>>

CsvRow(city, race, sex, date, lat, lon) ==
  [city |-> city, victim_race |-> race, victim_sex |-> sex,
   reported_date |-> date, lat |-> lat, lon |-> lon]

SelectionRows ==
  {CsvRow(c, r, "Male", d, Str("35.08"), Str("-106.65")) :
     c \in {"Albuquerque", "Atlanta"}, r \in {"White", "Black"}, d \in {Date2007, Date2008}}
  \cup {CsvRow("", "", "Male", Date2007, Str("35.08"), Str("-106.65"))}

TrendRows ==
  {CsvRow(c, "White", "Male", d, Str("35.08"), Str("-106.65")) :
     c \in {"Albuquerque", "Atlanta"}, d \in {DateText, Date2007, Date2008}}
  \cup {CsvRow("Albuquerque", "White", "Male", d, Str("35.08"), Str("-106.65")) :
          d \in {DateEmpty, Date0000}}

BarRows ==
  {CsvRow("Albuquerque", r, s, Date2007, Str("35.08"), Str("-106.65")) :
     r \in {"White", "Black"}, s \in {"", "Male", "Female"}}
  \cup {CsvRow("Albuquerque", "White", "Male", Date2008, Str("35.08"), Str("-106.65")),
        CsvRow("Atlanta", "White", "Female", Date2007, Str("35.08"), Str("-106.65"))}

GeoRows ==
  {CsvRow("Albuquerque", "White", "Male", d, c[1], c[2]) :
     d \in {Date2007, Date2008},
     c \in {<<Str("35.08"), Str("-106.65")>>, <<Str(""), Str("-106.65")>>,
            <<Str("35.08"), Str("")>>, <<Undefined, Str("-106.65")>>}}

Families == {SelectionRows, TrendRows, BarRows, GeoRows}

(***************************************************************************)
(* The page while d3.csv is pending: data is what the file will yield;     *)
(* there is no selection yet, and the selects and surfaces are empty.      *)
(***************************************************************************)
Init ==
  /\ loaded = FALSE
  /\ \E F \in Families, k \in 0..MaxRecords :
       \E rows \in [1..k -> F] : data = LoadCsv(rows)
  /\ selectedCity = ""
  /\ selectedRace = ""
  /\ selectedYear = Undefined
  /\ citySelect = ""
  /\ raceSelect = ""
  /\ lineChart = [title |-> "", text |-> {}, axes |-> FALSE, marks |-> <<>>]
  /\ barChart = [title |-> <<Str(""), Undefined>>, text |-> {}, axes |-> FALSE, marks |-> <<>>]
  /\ scatterChart =
       [title |-> <<Str(""), Undefined>>, text |-> {}, axes |-> FALSE, marks |-> <<>>]
  /\ redrawn = {}
  /\ lastEvent = [type |-> "none", arg |-> Undefined]

\* The then-callback: the defaults are set, the selects are filled and set, and the
\* three charts are drawn.
Load ==
  LET yr == defaultYear("Albuquerque", "White") IN
  /\ ~loaded
  /\ loaded' = TRUE
  /\ selectedCity' = "Albuquerque"
  /\ selectedRace' = "White"
  /\ selectedYear' = yr
  /\ citySelect' = IF "Albuquerque" \in cities THEN "Albuquerque" ELSE ""
  /\ raceSelect' = IF "White" \in races THEN "White" ELSE ""
  /\ lineChart' = drawLineChart("Albuquerque")
  /\ barChart' = drawBarChart("Albuquerque", "White", yr)
  /\ scatterChart' = drawLatLonScatterplot("Albuquerque", yr)
  /\ redrawn' = {"line", "bar", "scatter"}
  /\ lastEvent' = [type |-> "load", arg |-> Undefined]
  /\ UNCHANGED data

\* Variant: the click handler redraws all three charts.
PointClickRedrawingAll ==
  \E i \in DOMAIN lineChart.marks :
    LET d == lineChart.marks[i] IN
    /\ loaded
    /\ selectedYear' = d.year
    /\ lineChart' = drawLineChart(selectedCity)
    /\ barChart' = drawBarChart(selectedCity, selectedRace, d.year)
    /\ scatterChart' = drawLatLonScatterplot(selectedCity, d.year)
    /\ redrawn' = {"line", "bar", "scatter"}
    /\ lastEvent' = [type |-> "click", arg |-> d.year]
    /\ UNCHANGED <<loaded, data, selectedCity, selectedRace, citySelect, raceSelect>>

\* Variant: the click handler redraws the bar chart only.
PointClickBarOnly ==
  \E i \in DOMAIN lineChart.marks :
    LET d == lineChart.marks[i] IN
    /\ loaded
    /\ selectedYear' = d.year
    /\ barChart' = drawBarChart(selectedCity, selectedRace, d.year)
    /\ redrawn' = {"bar"}
    /\ lastEvent' = [type |-> "click", arg |-> d.year]
    /\ UNCHANGED <<loaded, data, selectedCity, selectedRace, citySelect, raceSelect,
                   lineChart, scatterChart>>

\* The click handler bound to each circle of the line chart.
PointClick ==
  \E i \in DOMAIN lineChart.marks :
    LET d == lineChart.marks[i] IN
    /\ loaded
    /\ selectedYear' = d.year
    /\ barChart' = drawBarChart(selectedCity, selectedRace, d.year)
    /\ scatterChart' = drawLatLonScatterplot(selectedCity, d.year)
    /\ redrawn' = {"bar", "scatter"}
    /\ lastEvent' = [type |-> "click", arg |-> d.year]
    /\ UNCHANGED <<loaded, data, selectedCity, selectedRace, citySelect, raceSelect, lineChart>>

\* Variant: the city handler does not redraw the line chart.
CityChangeKeepingLine ==
  \E value \in cities \ {citySelect} :
    LET yr == defaultYear(value, selectedRace) IN
    /\ loaded
    /\ citySelect' = value
    /\ selectedCity' = value
    /\ selectedYear' = yr
    /\ barChart' = drawBarChart(value, selectedRace, yr)
    /\ scatterChart' = drawLatLonScatterplot(value, yr)
    /\ redrawn' = {"bar", "scatter"}
    /\ lastEvent' = [type |-> "city", arg |-> Str(value)]
    /\ UNCHANGED <<loaded, data, selectedRace, raceSelect, lineChart>>

\* The change handler of #citySelect; the user picks another option than the one shown.
CityChange ==
  \E value \in cities \ {citySelect} :
    LET yr == defaultYear(value, selectedRace) IN
    /\ loaded
    /\ citySelect' = value
    /\ selectedCity' = value
    /\ selectedYear' = yr
    /\ lineChart' = drawLineChart(value)
    /\ barChart' = drawBarChart(value, selectedRace, yr)
    /\ scatterChart' = drawLatLonScatterplot(value, yr)
    /\ redrawn' = {"line", "bar", "scatter"}
    /\ lastEvent' = [type |-> "city", arg |-> Str(value)]
    /\ UNCHANGED <<loaded, data, selectedRace, raceSelect>>

\* Variant: the race handler resets the year as the city handler does.
RaceChangeResettingYear ==
  \E value \in races \ {raceSelect} :
    LET yr == defaultYear(selectedCity, value) IN
    /\ loaded
    /\ raceSelect' = value
    /\ selectedRace' = value
    /\ selectedYear' = yr
    /\ barChart' = drawBarChart(selectedCity, value, yr)
    /\ redrawn' = {"bar"}
    /\ lastEvent' = [type |-> "race", arg |-> Str(value)]
    /\ UNCHANGED <<loaded, data, selectedCity, citySelect, lineChart, scatterChart>>

\* The change handler of #raceSelect.
RaceChange ==
  \E value \in races \ {raceSelect} :
    /\ loaded
    /\ raceSelect' = value
    /\ selectedRace' = value
    /\ barChart' = drawBarChart(selectedCity, value, selectedYear)
    /\ redrawn' = {"bar"}
    /\ lastEvent' = [type |-> "race", arg |-> Str(value)]
    /\ UNCHANGED <<loaded, data, selectedCity, selectedYear, citySelect, lineChart, scatterChart>>

Next == Load \/ PointClick \/ CityChange \/ RaceChange

Spec == Init /\ [][Next]_vars

(***************************************************************************)
(* Vocabulary of the properties, stated over the records themselves.       *)
(* A record carries a year when the loader derived a calendar year from    *)
(* its date: not null (no date), not NaN (no digits), not 0 (date 0000).   *)
(***************************************************************************)
PresentYear(v) == v.t = "number" /\ v.n >= 1
PresentCoordinate(v) == v.t = "string" /\ v.s # ""

MinOf(S) == CHOOSE m \in S : \A x \in S : m <= x

AllYearNumbers == {data[i].year.n : i \in {j \in DOMAIN data : PresentYear(data[j].year)}}

ValidYearNumbers(c, r) ==
  {data[i].year.n : i \in {j \in DOMAIN data :
      data[j].city = c /\ data[j].victim_race = r /\ PresentYear(data[j].year)}}

CityYearNumbers(c) ==
  {data[i].year.n : i \in {j \in DOMAIN data : data[j].city = c /\ PresentYear(data[j].year)}}

ExpectedDefaultYear(c, r) ==
  IF ValidYearNumbers(c, r) # {} THEN Num(MinOf(ValidYearNumbers(c, r)))
  ELSE IF AllYearNumbers # {} THEN Num(MinOf(AllYearNumbers))
  ELSE Undefined

RECURSIVE SumCounts(_)
SumCounts(s) == IF s = <<>> THEN 0 ELSE Head(s).count + SumCounts(Tail(s))

\* The selections the properties range over: every value a select can offer or the
\* selection can hold (a year is a number or undefined).
SomeCities == {"Albuquerque", "Atlanta", selectedCity}
SomeRaces == {"White", "Black", selectedRace}
SomeYears == {Num(2007), Num(2008), Undefined, selectedYear}

(***************************************************************************)
(* C1: a race dropdown change to an offered race sets selectedRace to it,  *)
(* keeps selectedYear and selectedCity, and redraws the bar chart only.    *)
(***************************************************************************)
RaceChangeKeepsYearAndCity ==
  [][lastEvent'.type = "race" /\ raceSelect' # raceSelect =>
       /\ raceSelect' \in races
       /\ selectedRace' = raceSelect'
       /\ selectedYear' = selectedYear
       /\ selectedCity' = selectedCity
       /\ redrawn' = {"bar"}
       /\ lineChart' = lineChart
       /\ scatterChart' = scatterChart]_vars

\* A race change has kept a year that no record of the new city/race pair has.
RaceChangedToPairWithoutYear ==
  /\ lastEvent.type = "race"
  /\ PresentYear(selectedYear)
  /\ ValidYearNumbers(selectedCity, selectedRace) # {}
  /\ selectedYear.n \notin ValidYearNumbers(selectedCity, selectedRace)
  /\ barChart.axes = FALSE

(***************************************************************************)
(* C2: after the load and after every city change, selectedYear is the     *)
(* least year of the records of (city, race) when there is one, else the   *)
(* least year of all records, else undefined; a city change sets the city  *)
(* and keeps the race.                                                     *)
(***************************************************************************)
CityChangeDerivesDefaultYear ==
  /\ [](lastEvent.type \in {"load", "city"} =>
          /\ selectedYear = ExpectedDefaultYear(selectedCity, selectedRace)
          /\ ValidYearNumbers(selectedCity, selectedRace) # {} =>
               /\ PresentYear(selectedYear)
               /\ selectedYear.n \in ValidYearNumbers(selectedCity, selectedRace))
  /\ [][lastEvent'.type = "city" /\ citySelect' # citySelect =>
          /\ selectedCity' = citySelect'
          /\ selectedRace' = selectedRace]_vars

\* A city change chose a year of the pair that is not the least year of the file.
CityChangedToLaterDefault ==
  /\ lastEvent.type = "city"
  /\ PresentYear(selectedYear)
  /\ selectedYear.n \in ValidYearNumbers(selectedCity, selectedRace)
  /\ selectedYear.n # MinOf(AllYearNumbers)

(***************************************************************************)
(* C3: once loaded, selectedCity is one of the cities of the file and      *)
(* selectedRace one of its races, for every file that holds a record.      *)
(***************************************************************************)
SelectionIsFromDataset ==
  loaded /\ data # <<>> =>
    /\ selectedCity \in cities
    /\ selectedRace \in races

(***************************************************************************)
(* C4: for every city, the trend series holds exactly the years of the     *)
(* city's records that carry a year, each once, with the number of such    *)
(* records of that year, in ascending order of year.                       *)
(***************************************************************************)
TrendSeriesIsYearHistogram ==
  \A c \in SomeCities :
    LET out == yearData(c)
        Matching(y) == {i \in DOMAIN data :
                          data[i].city = c /\ PresentYear(data[i].year) /\ data[i].year.n = y}
    IN /\ \A i \in DOMAIN out : PresentYear(out[i].year)
       /\ {out[i].year.n : i \in DOMAIN out} = CityYearNumbers(c)
       /\ \A i, j \in DOMAIN out : i < j => out[i].year.n < out[j].year.n
       /\ \A i \in DOMAIN out : out[i].count = Cardinality(Matching(out[i].year.n))
       /\ SumCounts(out) =
            Cardinality({i \in DOMAIN data : data[i].city = c /\ PresentYear(data[i].year)})

\* The line chart shows two years, one counted twice, from records loaded latest year first.
TrendDrawnFromUnsortedRecords ==
  /\ Len(lineChart.marks) = 2
  /\ lineChart.marks[1].count = 2
  /\ Len(data) = 3
  /\ data[1].city = selectedCity
  /\ data[1].year = lineChart.marks[2].year

(***************************************************************************)
(* C5: for every (city, race, year), the sex series holds exactly the      *)
(* non-empty victim_sex values of the records matching all three, each     *)
(* once with the number of such records, in descending order of count.     *)
(***************************************************************************)
SexSeriesIsSexHistogram ==
  \A c \in SomeCities, r \in SomeRaces, y \in SomeYears :
    LET out == sexData(c, r, y)
        Matching == {i \in DOMAIN data :
                       /\ data[i].city = c
                       /\ data[i].victim_race = r
                       /\ y.t = "number" /\ data[i].year = y
                       /\ data[i].victim_sex # ""}
    IN /\ {out[i].sex : i \in DOMAIN out} = {data[i].victim_sex : i \in Matching}
       /\ \A i, j \in DOMAIN out : out[i].sex = out[j].sex => i = j
       /\ \A i \in DOMAIN out :
            out[i].count = Cardinality({m \in Matching : data[m].victim_sex = out[i].sex})
       /\ \A i, j \in DOMAIN out : i < j => out[i].count >= out[j].count

\* The bar chart shows two sexes, the larger first, though the smaller was loaded first.
BarsDrawnLargestFirst ==
  /\ Len(barChart.marks) = 2
  /\ barChart.marks[1].count > barChart.marks[2].count
  /\ data[1].victim_sex = barChart.marks[2].sex
  /\ data[1].city = selectedCity
  /\ data[1].victim_race = selectedRace
  /\ data[1].year = selectedYear

(***************************************************************************)
(* C6: for every (city, year), the scatter series holds no record whose    *)
(* lat or lon is absent or empty, and holds as many records as match the   *)
(* city and year with both coordinates, whatever their race.               *)
(***************************************************************************)
GeoSeriesHasCoordinates ==
  loaded =>
    /\ \A i \in DOMAIN scatterChart.marks :
         /\ PresentCoordinate(scatterChart.marks[i].lat)
         /\ PresentCoordinate(scatterChart.marks[i].lon)
    /\ \A c \in SomeCities, y \in SomeYears :
         LET out == scatterFiltered(c, y)
         IN /\ \A i \in DOMAIN out :
                 PresentCoordinate(out[i].lat) /\ PresentCoordinate(out[i].lon)
            /\ Len(out) = Cardinality({i \in DOMAIN data :
                                         /\ data[i].city = c
                                         /\ y.t = "number" /\ data[i].year = y
                                         /\ PresentCoordinate(data[i].lat)
                                         /\ PresentCoordinate(data[i].lon)})

(***************************************************************************)
(* C7: a click on the trend point of year y sets selectedYear to y, keeps  *)
(* selectedCity and selectedRace, redraws the bar chart and the            *)
(* scatterplot, and leaves the trend chart as it was.                      *)
(***************************************************************************)
PointClickSetsYearOnly ==
  [][lastEvent'.type = "click" =>
       /\ selectedYear' = lastEvent'.arg
       /\ \E i \in DOMAIN lineChart.marks : lineChart.marks[i].year = selectedYear'
       /\ selectedCity' = selectedCity
       /\ selectedRace' = selectedRace
       /\ redrawn' = {"bar", "scatter"}
       /\ lineChart' = lineChart]_vars

\* A click has moved the year away from the default of the city/race pair.
ClickedAnotherYear ==
  /\ lastEvent.type = "click"
  /\ selectedYear = lastEvent.arg
  /\ selectedYear # ExpectedDefaultYear(selectedCity, selectedRace)
  /\ barChart.title[2] = selectedYear

(***************************************************************************)
(* C8 as stated: a chart whose series for the current selection is empty   *)
(* shows the placeholder message and nothing else (no axes, no shapes, no  *)
(* clickable point), and the selection holds what the last event set.      *)
(***************************************************************************)
SelectionHoldsLastEvent ==
  /\ lastEvent.type = "city" => selectedCity = lastEvent.arg.s
  /\ lastEvent.type = "race" => selectedRace = lastEvent.arg.s
  /\ lastEvent.type = "click" => selectedYear = lastEvent.arg

EmptySeriesShowsOnlyPlaceholder ==
  loaded =>
  /\ lineFiltered(selectedCity) = <<>> =>
       /\ lineChart.text = {"No homicide data found."}
       /\ lineChart.axes = FALSE
       /\ lineChart.marks = <<>>
  /\ barFiltered(selectedCity, selectedRace, selectedYear) = <<>> =>
       /\ barChart.text = {"No data for selected filters."}
       /\ barChart.axes = FALSE
       /\ barChart.marks = <<>>
  /\ scatterFiltered(selectedCity, selectedYear) = <<>> =>
       /\ scatterChart.text = {"No coordinate data for these filters."}
       /\ scatterChart.axes = FALSE
       /\ scatterChart.marks = <<>>
  /\ SelectionHoldsLastEvent

(***************************************************************************)
(* C8 as amended: the same, except that the trend chart shows its click    *)
(* hint beside the placeholder message.                                    *)
(***************************************************************************)
EmptySeriesShowsPlaceholder ==
  loaded =>
  /\ lineFiltered(selectedCity) = <<>> =>
       /\ lineChart.text =
            {"(Click a point to explore that year's data)", "No homicide data found."}
       /\ lineChart.axes = FALSE
       /\ lineChart.marks = <<>>
  /\ barFiltered(selectedCity, selectedRace, selectedYear) = <<>> =>
       /\ barChart.text = {"No data for selected filters."}
       /\ barChart.axes = FALSE
       /\ barChart.marks = <<>>
  /\ scatterFiltered(selectedCity, selectedYear) = <<>> =>
       /\ scatterChart.text = {"No coordinate data for these filters."}
       /\ scatterChart.axes = FALSE
       /\ scatterChart.marks = <<>>
  /\ SelectionHoldsLastEvent

\* A race change left all three charts without data, and the new race stands.
AllChartsEmptyAfterRaceChange ==
  /\ lastEvent.type = "race"
  /\ selectedRace = lastEvent.arg.s
  /\ lineFiltered(selectedCity) = <<>>
  /\ barFiltered(selectedCity, selectedRace, selectedYear) = <<>>
  /\ scatterFiltered(selectedCity, selectedYear) = <<>>
  /\ lineChart.marks = <<>>

(***************************************************************************)
(* C9: once loaded, in every state each chart shows what its draw         *)
(* function yields for the current selection: trend for the city, bars     *)
(* for (city, race, year), scatter for (city, year).                       *)
(***************************************************************************)
NoChartIsStale ==
  loaded =>
  /\ lineChart = drawLineChart(selectedCity)
  /\ barChart = drawBarChart(selectedCity, selectedRace, selectedYear)
  /\ scatterChart = drawLatLonScatterplot(selectedCity, selectedYear)

\* After an event that redrew only some charts, with every chart holding data.
PartialRedrawWithData ==
  /\ redrawn # {"line", "bar", "scatter"}
  /\ selectedYear # ExpectedDefaultYear(selectedCity, selectedRace)
  /\ lineChart.axes
  /\ barChart.axes
  /\ scatterChart.axes

(***************************************************************************)
(* C10: once loaded, selectedYear is a year of some record of the selected *)
(* city, or the least year of the file, or undefined when no record        *)
(* carries a year.                                                         *)
(***************************************************************************)
YearIsOfCityOrGlobalMinimum ==
  loaded =>
  \/ PresentYear(selectedYear) /\ selectedYear.n \in CityYearNumbers(selectedCity)
  \/ PresentYear(selectedYear) /\ AllYearNumbers # {}
       /\ selectedYear.n = MinOf(AllYearNumbers)
  \/ AllYearNumbers = {} /\ selectedYear = Undefined

\* A click after a city change, while another city has a year this city lacks.
ClickedAfterCityChange ==
  /\ lastEvent.type = "click"
  /\ citySelect # "Albuquerque"
  /\ citySelect # ""
  /\ AllYearNumbers \ CityYearNumbers(selectedCity) # {}
  /\ selectedYear.n # MinOf(AllYearNumbers)

====
